---- MODULE Spec2Model ----
(***************************************************************************)
(* GitHub Milestone Creator (github_milestone_creator.py): the             *)
(* reconciliation of a list of milestone specs against the milestones of   *)
(* one or more repositories.                                               *)
(*                                                                         *)
(* Python values are modelled as follows.  A str is the sequence of its    *)
(* characters (<<>> is the empty string), None is the one-element sequence *)
(* <<"None">> (no str, its element is not a character), a dict is a        *)
(* record or function whose DOMAIN is its set of keys, and "no dict"       *)
(* (None where a dict is expected) is NoneDict.                            *)
(***************************************************************************)
EXTENDS Integers, Sequences, FiniteSets, TLC

\* ------------------------------------------------------------ bounds

\* Longest `milestones` list of a config.
MaxMilestones == 2
\* Longest `repos` list of a config.
MaxRepos == 2
\* Number of (repo, spec) pairs of a behaviour in which remote calls fail.
MaxFaultyPairs == 1
\* Number of consecutive runs of the program over the same config.
MaxRuns == 2
\* Number of specs of the batches run against a single repository.
MaxBatch == 3
\* Longest text given to _strip_json_comments.
MaxTextLen == 7

\* ------------------------------------------------------------ values

None == <<"None">>
NoneDict == [none |-> TRUE]
EmptyStr == <<>>

\* Python truthiness of an Optional[str]: neither None nor "".
Truthy(v) == v # None /\ v # EmptyStr

\* `v or None`.
OrNone(v) == IF Truthy(v) THEN v ELSE None

Digits == {"0", "1", "2", "3", "4", "5", "6", "7", "8", "9"}

DigitVal(c) ==
    CASE c = "0" -> 0 [] c = "1" -> 1 [] c = "2" -> 2 [] c = "3" -> 3
      [] c = "4" -> 4 [] c = "5" -> 5 [] c = "6" -> 6 [] c = "7" -> 7
      [] c = "8" -> 8 [] c = "9" -> 9

DigitChar(n) ==
    CASE n = 0 -> "0" [] n = 1 -> "1" [] n = 2 -> "2" [] n = 3 -> "3"
      [] n = 4 -> "4" [] n = 5 -> "5" [] n = 6 -> "6" [] n = 7 -> "7"
      [] n = 8 -> "8" [] n = 9 -> "9"

IsDigits(s) == \A i \in 1..Len(s) : s[i] \in Digits

RECURSIVE ToInt(_)
\* int() of a string of decimal digits.
ToInt(s) ==
    IF s = <<>> THEN 0
    ELSE 10 * ToInt(SubSeq(s, 1, Len(s) - 1)) + DigitVal(s[Len(s)])

RECURSIVE IntStr(_)
\* str() of a natural number.
IntStr(n) ==
    IF n < 10 THEN <<DigitChar(n)>>
    ELSE IntStr(n \div 10) \o <<DigitChar(n % 10)>>

\* A number zero-padded to two digits (%m, %d of strftime).
Pad2(n) == <<DigitChar((n \div 10) % 10), DigitChar(n % 10)>>

\* s starts with the string p.
StartsWith(s, p) == Len(s) >= Len(p) /\ SubSeq(s, 1, Len(p)) = p

\* The index of the first occurrence of character c in s at or after
\* position from, 0 when there is none (str.find, 1-based).
FindChar(s, c, from) ==
    IF \E i \in from..Len(s) : s[i] = c
    THEN CHOOSE i \in from..Len(s) :
             s[i] = c /\ \A j \in from..(i - 1) : s[j] # c
    ELSE 0

\* ------------------------------------------------------------ dates

IsLeap(y) == (y % 4 = 0 /\ y % 100 # 0) \/ y % 400 = 0

DaysInMonth(y, m) ==
    IF m = 2 THEN (IF IsLeap(y) THEN 29 ELSE 28)
    ELSE IF m \in {4, 6, 9, 11} THEN 30 ELSE 31

BadDateValue == [ok |-> FALSE]

\* The length of the month field strptime's %m matches at the head of s:
\* 1[0-2] | 0[1-9] | [1-9], the first alternative that matches; 0 for none.
MonthFieldLen(s) ==
    IF Len(s) >= 2 /\ s[1] = "1" /\ s[2] \in {"0", "1", "2"} THEN 2
    ELSE IF Len(s) >= 2 /\ s[1] = "0" /\ s[2] \in Digits \ {"0"} THEN 2
    ELSE IF Len(s) >= 1 /\ s[1] \in Digits \ {"0"} THEN 1
    ELSE 0

\* The same for %d: 3[01] | [12]\d | 0[1-9] | [1-9] | " "[1-9].
DayFieldLen(s) ==
    IF Len(s) >= 2 /\ s[1] = "3" /\ s[2] \in {"0", "1"} THEN 2
    ELSE IF Len(s) >= 2 /\ s[1] \in {"1", "2"} /\ s[2] \in Digits THEN 2
    ELSE IF Len(s) >= 2 /\ s[1] = "0" /\ s[2] \in Digits \ {"0"} THEN 2
    ELSE IF Len(s) >= 1 /\ s[1] \in Digits \ {"0"} THEN 1
    ELSE IF Len(s) >= 2 /\ s[1] = " " /\ s[2] \in Digits \ {"0"} THEN 2
    ELSE 0

\* The digits of a %m or %d field (a leading blank of %d dropped).
FieldInt(f) == ToInt(SelectSeq(f, LAMBDA c : c \in Digits))

\* datetime.strptime(s, '%Y-%m-%d'): the date, or BadDateValue where
\* strptime raises ValueError (no match, unconverted data, no such day).
Strptime(s) ==
    IF ~(Len(s) >= 5 /\ IsDigits(SubSeq(s, 1, 4)) /\ s[5] = "-")
    THEN BadDateValue
    ELSE
      LET afterY == SubSeq(s, 6, Len(s))
          ml     == MonthFieldLen(afterY)
      IN  IF ml = 0 \/ Len(afterY) < ml + 1 \/ afterY[ml + 1] # "-"
          THEN BadDateValue
          ELSE
            LET afterM == SubSeq(afterY, ml + 2, Len(afterY))
                dl     == DayFieldLen(afterM)
                y      == ToInt(SubSeq(s, 1, 4))
                m      == FieldInt(SubSeq(afterY, 1, ml))
                d      == FieldInt(SubSeq(afterM, 1, dl))
            IN  IF dl = 0 \/ dl # Len(afterM) THEN BadDateValue
                ELSE IF y < 1 \/ d > DaysInMonth(y, m) THEN BadDateValue
                ELSE [ok |-> TRUE, year |-> y, month |-> m, day |-> d]

\* strftime's %Y as the C library of the build prints it: the year in
\* decimal, not padded.
YearStr(y) == IntStr(y)

\* dt.strftime('%Y-%m-%dT00:00:00Z')
StrftimeMidnightZ(dt) ==
    YearStr(dt.year) \o <<"-">> \o Pad2(dt.month) \o <<"-">> \o Pad2(dt.day)
      \o <<"T", "0", "0", ":", "0", "0", ":", "0", "0", "Z">>

\* dt.strftime('%Y-%m-%d')
StrftimeDate(dt) ==
    YearStr(dt.year) \o <<"-">> \o Pad2(dt.month) \o <<"-">> \o Pad2(dt.day)

\* The date and the rest of an ISO-8601 string in the extended format
\* YYYY-MM-DD[<sep>HH:MM:SS[(+|-)HH:MM]], or BadDateValue.
FromIsoformat(s) ==
    IF ~(/\ Len(s) >= 10
         /\ IsDigits(SubSeq(s, 1, 4)) /\ s[5] = "-"
         /\ IsDigits(SubSeq(s, 6, 7)) /\ s[8] = "-"
         /\ IsDigits(SubSeq(s, 9, 10)))
    THEN BadDateValue
    ELSE
      LET y    == ToInt(SubSeq(s, 1, 4))
          m    == ToInt(SubSeq(s, 6, 7))
          d    == ToInt(SubSeq(s, 9, 10))
          rest == SubSeq(s, 11, Len(s))
          timeOk(t) ==
              /\ Len(t) >= 8
              /\ IsDigits(SubSeq(t, 1, 2)) /\ ToInt(SubSeq(t, 1, 2)) <= 23
              /\ t[3] = ":"
              /\ IsDigits(SubSeq(t, 4, 5)) /\ ToInt(SubSeq(t, 4, 5)) <= 59
              /\ t[6] = ":"
              /\ IsDigits(SubSeq(t, 7, 8)) /\ ToInt(SubSeq(t, 7, 8)) <= 59
          zoneOk(z) ==
              \/ z = <<>>
              \/ /\ Len(z) = 6 /\ z[1] \in {"+", "-"}
                 /\ IsDigits(SubSeq(z, 2, 3)) /\ ToInt(SubSeq(z, 2, 3)) <= 23
                 /\ z[4] = ":"
                 /\ IsDigits(SubSeq(z, 5, 6)) /\ ToInt(SubSeq(z, 5, 6)) <= 59
      IN  IF y < 1 \/ m < 1 \/ m > 12 \/ d < 1 \/ d > DaysInMonth(y, m)
          THEN BadDateValue
          ELSE IF rest = <<>>
                  \/ (/\ timeOk(SubSeq(rest, 2, Len(rest)))
                      /\ zoneOk(SubSeq(rest, 10, Len(rest))))
          THEN [ok |-> TRUE, year |-> y, month |-> m, day |-> d]
          ELSE BadDateValue

RECURSIVE ReplaceZ(_)
\* date_str.replace('Z', '+00:00')
ReplaceZ(s) ==
    IF s = <<>> THEN <<>>
    ELSE (IF Head(s) = "Z" THEN <<"+", "0", "0", ":", "0", "0">>
          ELSE <<Head(s)>>) \o ReplaceZ(Tail(s))

\* _format_date: YYYY-MM-DDTHH:MM:SSZ -> YYYY-MM-DD for display; None for
\* None or "", the string itself when it does not parse.
FormatDate(date_str) ==
    IF ~Truthy(date_str) THEN None
    ELSE LET dt == FromIsoformat(ReplaceZ(date_str))
         IN  IF dt.ok THEN StrftimeDate(dt) ELSE date_str

NotSet == <<"(not set)">>

\* _format_value_change: the rendered line, as its parts.  The third part
\* tells an unchanged field from a changed one.
FormatValueChange(field_name, previous, new, is_date) ==
    LET prev_str == IF is_date
                    THEN (IF Truthy(previous) /\ previous # NotSet
                          THEN previous ELSE NotSet)
                    ELSE (IF previous # None THEN previous ELSE NotSet)
        new_str  == IF is_date
                    THEN (IF Truthy(new) /\ new # NotSet THEN new ELSE NotSet)
                    ELSE (IF new # None THEN new ELSE NotSet)
        prev_normalized == IF prev_str # NotSet THEN prev_str ELSE None
        new_normalized  == IF new_str # NotSet THEN new_str ELSE None
    IN  IF prev_normalized = new_normalized
        THEN <<field_name, new_str, "(unchanged)">>
        ELSE <<field_name, prev_str, "->", new_str>>

\* ------------------------------------------------------------ remote

\* The remote milestones: for each repository (a pair <<owner, repo>>) the
\* list of its milestone dicts, in the order list_milestones returns them.
Owner == <<"o">>
RepoA == <<"o", "/", "a">>
RepoB == <<"o", "/", "b">>
RepoC == <<"o", "/", "c">>

\* repo.split('/', 1)
SplitRepo(repo) ==
    LET i == FindChar(repo, "/", 1)
    IN  <<SubSeq(repo, 1, i - 1), SubSeq(repo, i + 1, Len(repo))>>

HttpsGithub ==
    <<"h", "t", "t", "p", "s", ":", "/", "/",
      "g", "i", "t", "h", "u", "b", ".", "c", "o", "m", "/">>

MilestoneSeg == <<"m", "i", "l", "e", "s", "t", "o", "n", "e">>

BadUrlValue == [ok |-> FALSE]

RECURSIVE SplitOn(_, _)
\* s.split(c): the pieces of s between the occurrences of character c.
SplitOn(s, c) ==
    IF FindChar(s, c, 1) = 0 THEN <<s>>
    ELSE <<SubSeq(s, 1, FindChar(s, c, 1) - 1)>>
           \o SplitOn(SubSeq(s, FindChar(s, c, 1) + 1, Len(s)), c)

\* s without one final newline: the $ of a pattern also matches before it.
DropFinalNewline(s) ==
    IF s # <<>> /\ s[Len(s)] = "\n" THEN SubSeq(s, 1, Len(s) - 1) ELSE s

\* The match of ([^/]+)/([^/]+)/milestone/(\d+)$ on the pieces of the URL
\* after https://github.com/ .
MatchMilestonePath(segs) ==
    IF /\ Len(segs) = 4
       /\ segs[1] # <<>> /\ segs[2] # <<>>
       /\ segs[3] = MilestoneSeg
       /\ DropFinalNewline(segs[4]) # <<>>
       /\ IsDigits(DropFinalNewline(segs[4]))
    THEN [ok |-> TRUE, owner |-> segs[1], repo |-> segs[2],
          number |-> ToInt(DropFinalNewline(segs[4]))]
    ELSE BadUrlValue

\* parse_milestone_url: the pattern
\* ^https://github\.com/([^/]+)/([^/]+)/milestone/(\d+)$ ; BadUrlValue
\* where it raises ValueError.
ParseMilestoneUrl(url) ==
    IF ~StartsWith(url, HttpsGithub) THEN BadUrlValue
    ELSE MatchMilestonePath(
             SplitOn(SubSeq(url, Len(HttpsGithub) + 1, Len(url)), "/"))

\* The milestones of a repository, <<>> for a repository the remote does
\* not know.
MilestonesOf(rem, owner, repo) ==
    IF <<owner, repo>> \in DOMAIN rem THEN rem[<<owner, repo>>] ELSE <<>>

\* GET /repos/{owner}/{repo}/milestones/{number}: the response.
ApiGetMilestone(rem, owner, repo, number) ==
    LET ms == MilestonesOf(rem, owner, repo)
    IN  IF \E i \in 1..Len(ms) : ms[i].number = number
        THEN [status |-> 200,
              json |-> ms[CHOOSE i \in 1..Len(ms) : ms[i].number = number]]
        ELSE [status |-> 404]

\* list_milestones returning after the first page, pages of one milestone.
ListMilestonesFirstPage(rem, owner, repo, state) ==
    SubSeq(MilestonesOf(rem, owner, repo), 1,
           IF MilestonesOf(rem, owner, repo) = <<>> THEN 0 ELSE 1)

\* list_milestones answering open milestones only, whatever state is asked.
ListMilestonesOpenOnly(rem, owner, repo, state) ==
    SelectSeq(MilestonesOf(rem, owner, repo), LAMBDA m : m.state = "open")

\* list_milestones(owner, repo, state): every page of the repository's
\* milestones in that state, in the remote's order.
ListMilestones(rem, owner, repo, state) ==
    IF state = "all" THEN MilestonesOf(rem, owner, repo)
    ELSE SelectSeq(MilestonesOf(rem, owner, repo),
                   LAMBDA m : m.state = state)

\* The return of get_reference_milestone for the response to its GET.
ReferenceFromResponse(response) ==
    IF response.status = 404 THEN [outcome |-> "404", ret |-> NoneDict]
    ELSE [outcome |-> "ok", ret |-> response.json]

\* get_reference_milestone after parse_milestone_url gave p.
ReferenceFromParsed(rem, p, failed) ==
    IF ~p.ok THEN [outcome |-> "invalid_url", ret |-> NoneDict]
    ELSE IF failed THEN [outcome |-> "failed", ret |-> NoneDict]
    ELSE ReferenceFromResponse(
             ApiGetMilestone(rem, p.owner, p.repo, p.number))

\* get_reference_milestone: the milestone dict, or NoneDict: for a URL
\* that does not parse, for a 404 and for any other failure of the request
\* (failed: the request raises, or raise_for_status does).  `outcome`
\* keeps which of these it was; the caller sees `ret` only.
GetReferenceMilestone(rem, url, failed) ==
    ReferenceFromParsed(rem, ParseMilestoneUrl(url), failed)

\* find_milestone_by_name over the milestones list_milestones(owner, repo,
\* state='all') returned: the first one whose title is name, or NoneDict.
FindMilestoneByName(milestones, name) ==
    IF \E i \in 1..Len(milestones) : milestones[i].title = name
    THEN milestones[CHOOSE i \in 1..Len(milestones) :
             /\ milestones[i].title = name
             /\ \A j \in 1..(i - 1) : milestones[j].title # name]
    ELSE NoneDict

\* create_milestone sending description and due_on also when they are None.
CreateDataSendsNone(title, description, due_on) ==
    [k \in {"title", "description", "due_on"} |->
        CASE k = "title" -> title
          [] k = "description" -> description
          [] k = "due_on" -> due_on]

\* The JSON body of create_milestone: title, and description and due_on
\* when they are not None.
CreateData(title, description, due_on) ==
    [k \in {"title"}
          \cup (IF description # None THEN {"description"} ELSE {})
          \cup (IF due_on # None THEN {"due_on"} ELSE {}) |->
        CASE k = "title" -> title
          [] k = "description" -> description
          [] k = "due_on" -> due_on]

\* update_milestone sending description and due_on also when they are None.
UpdateDataSendsNone(title, description, due_on) ==
    [k \in (IF title # None THEN {"title"} ELSE {})
          \cup {"description", "due_on"} |->
        CASE k = "title" -> title
          [] k = "description" -> description
          [] k = "due_on" -> due_on]

\* The JSON body of update_milestone: each of title, description and
\* due_on that is not None.
UpdateData(title, description, due_on) ==
    [k \in (IF title # None THEN {"title"} ELSE {})
          \cup (IF description # None THEN {"description"} ELSE {})
          \cup (IF due_on # None THEN {"due_on"} ELSE {}) |->
        CASE k = "title" -> title
          [] k = "description" -> description
          [] k = "due_on" -> due_on]

Field(data, k, default) == IF k \in DOMAIN data THEN data[k] ELSE default

\* The number the remote gives the next milestone of a repository.
NextNumber(ms) ==
    IF ms = <<>> THEN 1
    ELSE 1 + (CHOOSE n \in {ms[i].number : i \in 1..Len(ms)} :
                  \A i \in 1..Len(ms) : ms[i].number <= n)

\* POST /repos/{owner}/{repo}/milestones with body data: the new remote
\* state and the created milestone.
ApiCreate(rem, owner, repo, data) ==
    LET ms == MilestonesOf(rem, owner, repo)
        m  == [number |-> NextNumber(ms),
               title |-> data["title"],
               description |-> Field(data, "description", None),
               due_on |-> Field(data, "due_on", None),
               state |-> "open"]
    IN  [remote |-> [q \in DOMAIN rem \cup {<<owner, repo>>} |->
                        IF q = <<owner, repo>> THEN Append(ms, m) ELSE rem[q]],
         json |-> m]

\* PATCH /repos/{owner}/{repo}/milestones/{number} with body data: a field
\* the body does not carry keeps its value.
ApiUpdate(rem, owner, repo, number, data) ==
    LET ms == MilestonesOf(rem, owner, repo)
        i  == CHOOSE i \in 1..Len(ms) : ms[i].number = number
        m  == [number |-> number,
               title |-> Field(data, "title", ms[i].title),
               description |-> Field(data, "description", ms[i].description),
               due_on |-> Field(data, "due_on", ms[i].due_on),
               state |-> ms[i].state]
    IN  [remote |-> [rem EXCEPT ![<<owner, repo>>] = [ms EXCEPT ![i] = m]],
         json |-> m]

\* ------------------------------------------------------------ resolution

Ok(v) == [ok |-> TRUE, val |-> v]
\* A raised exception, with str(e) as its parts.
Raise(msg) == [ok |-> FALSE, error |-> msg]

HttpError == <<"HTTPError">>

\* 'k in milestone_config and milestone_config[k]'
HasTruthy(milestone_config, k) ==
    k \in DOMAIN milestone_config /\ Truthy(milestone_config[k])

\* resolve_milestone_name taking the spec's name before the reference's
\* title.
ResolveMilestoneNamePrefersName(milestone_config, ref_milestone) ==
    IF "name" \in DOMAIN milestone_config
    THEN Ok(milestone_config["name"])
    ELSE IF HasTruthy(milestone_config, "referenceMilestoneUrl")
    THEN IF ref_milestone # NoneDict THEN Ok(ref_milestone.title)
         ELSE Raise(<<"referenceMilestoneUrl failed and no name provided">>)
    ELSE Raise(<<"Either name or referenceMilestoneUrl must be provided">>)

\* resolve_milestone_name, given the outcome of its reference lookup.
ResolveMilestoneName(milestone_config, ref_milestone) ==
    IF HasTruthy(milestone_config, "referenceMilestoneUrl")
    THEN IF ref_milestone # NoneDict THEN Ok(ref_milestone.title)
         ELSE IF "name" \in DOMAIN milestone_config
         THEN Ok(milestone_config["name"])
         ELSE Raise(<<"referenceMilestoneUrl failed and no name provided">>)
    ELSE IF "name" \in DOMAIN milestone_config
    THEN Ok(milestone_config["name"])
    ELSE Raise(<<"Either name or referenceMilestoneUrl must be provided">>)

SeePrefix == <<"S", "e", "e", " ">>

\* resolve_description: None both for "don't touch" and for "clear".
ResolveDescription(milestone_config, reference_milestone) ==
    IF HasTruthy(milestone_config, "referenceMilestoneUrl")
    THEN SeePrefix \o milestone_config["referenceMilestoneUrl"]
    ELSE IF "description" \notin DOMAIN milestone_config THEN None
    ELSE LET desc == milestone_config["description"]
         IN  IF desc = None \/ desc = EmptyStr THEN None ELSE desc

\* resolve_due_date handing on a dueDate that strptime rejects.
ResolveDueDateUnvalidated(milestone_config, reference_milestone) ==
    IF HasTruthy(milestone_config, "referenceMilestoneUrl")
    THEN IF reference_milestone # NoneDict
            /\ Truthy(reference_milestone.due_on)
         THEN Ok(reference_milestone.due_on)
         ELSE Ok(None)
    ELSE IF "dueDate" \notin DOMAIN milestone_config THEN Ok(None)
    ELSE LET due_date == milestone_config["dueDate"]
             dt       == Strptime(due_date)
         IN  IF due_date = None \/ due_date = EmptyStr THEN Ok(None)
             ELSE IF dt.ok THEN Ok(StrftimeMidnightZ(dt))
             ELSE Ok(due_date)

\* resolve_due_date looking at the spec's own dueDate before the reference.
ResolveDueDateLiteralFirst(milestone_config, reference_milestone) ==
    IF HasTruthy(milestone_config, "dueDate")
    THEN IF Strptime(milestone_config["dueDate"]).ok
         THEN Ok(StrftimeMidnightZ(Strptime(milestone_config["dueDate"])))
         ELSE Raise(<<"Invalid date format: ", milestone_config["dueDate"],
                      ". Expected YYYY-MM-DD">>)
    ELSE IF HasTruthy(milestone_config, "referenceMilestoneUrl")
            /\ reference_milestone # NoneDict
            /\ Truthy(reference_milestone.due_on)
    THEN Ok(reference_milestone.due_on)
    ELSE Ok(None)

\* resolve_due_date: None both for "don't touch" and for "clear".
ResolveDueDate(milestone_config, reference_milestone) ==
    IF HasTruthy(milestone_config, "referenceMilestoneUrl")
    THEN IF reference_milestone # NoneDict
            /\ Truthy(reference_milestone.due_on)
         THEN Ok(reference_milestone.due_on)
         ELSE Ok(None)
    ELSE IF "dueDate" \notin DOMAIN milestone_config THEN Ok(None)
    ELSE LET due_date == milestone_config["dueDate"]
             dt       == Strptime(due_date)
         IN  IF due_date = None \/ due_date = EmptyStr THEN Ok(None)
             ELSE IF dt.ok THEN Ok(StrftimeMidnightZ(dt))
             ELSE Raise(<<"Invalid date format: ", due_date,
                          ". Expected YYYY-MM-DD">>)

\* ------------------------------------------------------------ process_milestone

\* Which remote calls of one process_milestone fail: the first and the
\* second reference lookup, a listing of the repository's milestones (the
\* first, second or third: each raises out of the same try), the create or
\* update call.
NoFaults ==
    [ref1 |-> FALSE, ref2 |-> FALSE, list |-> FALSE, mutate |-> FALSE]

FaultPlans ==
    [ref1 : BOOLEAN, ref2 : BOOLEAN, list : BOOLEAN, mutate : BOOLEAN]

EmptyResult(repo) ==
    [repo |-> repo, action |-> None, milestone_number |-> None,
     name |-> None, error |-> None,
     previous_name |-> None, previous_description |-> None,
     previous_due_date |-> None, new_name |-> None,
     new_description |-> None, new_due_date |-> None]

\* The matching with the search by the target name made first.
MatchStepsNameFirst(ms, milestone_name, reference_milestone, by_rename) ==
    IF FindMilestoneByName(ms, milestone_name) # NoneDict
    THEN [existing_milestone |-> FindMilestoneByName(ms, milestone_name),
          found_by_rename |-> FALSE]
    ELSE [existing_milestone |-> by_rename,
          found_by_rename |-> by_rename # NoneDict]

\* The matching without its searches by the resolved name.
MatchStepsRenameOnly(ms, milestone_name, reference_milestone, by_rename) ==
    [existing_milestone |-> by_rename,
     found_by_rename |-> by_rename # NoneDict]

\* The matching of process_milestone (lines 362-381) over the listed
\* milestones ms, by_rename being what the search for existingNameToRename
\* found: the milestone found, and whether existingNameToRename found it.
MatchSteps(ms, milestone_name, reference_milestone, by_rename) ==
    IF by_rename # NoneDict
    THEN [existing_milestone |-> by_rename, found_by_rename |-> TRUE]
    ELSE IF reference_milestone # NoneDict
            /\ FindMilestoneByName(ms, milestone_name) # NoneDict
    THEN [existing_milestone |-> FindMilestoneByName(ms, milestone_name),
          found_by_rename |-> FALSE]
    ELSE [existing_milestone |-> FindMilestoneByName(ms, milestone_name),
          found_by_rename |-> FALSE]

FindExisting(ms, milestone_config, milestone_name, reference_milestone) ==
    MatchSteps(ms, milestone_name, reference_milestone,
               IF HasTruthy(milestone_config, "existingNameToRename")
               THEN FindMilestoneByName(
                        ms, milestone_config["existingNameToRename"])
               ELSE NoneDict)

\* What one process_milestone did: its result dict, the remote state it
\* leaves, its reference lookups, the mutating requests it sent, its local
\* variables, and which of its calls failed.
Outcome(result, rem, lookups, requests, found, needs_rename, matched, faulted) ==
    [result |-> result, remote |-> rem, lookups |-> lookups,
     requests |-> requests,
     existing_milestone |-> found.existing_milestone,
     found_by_rename |-> found.found_by_rename,
     needs_rename |-> needs_rename, matched |-> matched,
     faulted |-> faulted]

NotFoundYet == [existing_milestone |-> NoneDict, found_by_rename |-> FALSE]

\* The mutating call made in a dry run too.
MutatingAlways(dry_run) == TRUE

\* Lines 400 and 418: `if not dry_run`, the mutating call is made.
Mutating(dry_run) == ~dry_run

\* Lines 389-411: an existing milestone was found.
UpdateBranch(rem, owner, repo_name, r3, dry_run, plan, lookups, found, needs_rename, data, faulted) ==
    IF ~Mutating(dry_run)
    THEN Outcome([r3 EXCEPT
                    !.milestone_number = found.existing_milestone.number,
                    !.action = <<"update">>],
                 rem, lookups, <<>>, found, needs_rename, TRUE, faulted)
    ELSE IF plan.mutate
    THEN Outcome([r3 EXCEPT !.error = HttpError], rem, lookups,
                 <<[method |-> "PATCH", owner |-> owner, repo |-> repo_name,
                    number |-> found.existing_milestone.number,
                    data |-> data]>>,
                 found, needs_rename, TRUE,
                 [faulted EXCEPT !.mutate = TRUE])
    ELSE Outcome([r3 EXCEPT
                    !.milestone_number =
                        ApiUpdate(rem, owner, repo_name,
                                  found.existing_milestone.number,
                                  data).json.number,
                    !.action = <<"updated">>],
                 ApiUpdate(rem, owner, repo_name,
                           found.existing_milestone.number, data).remote,
                 lookups,
                 <<[method |-> "PATCH", owner |-> owner, repo |-> repo_name,
                    number |-> found.existing_milestone.number,
                    data |-> data]>>,
                 found, needs_rename, TRUE, faulted)

\* Lines 412-427: no existing milestone was found.
CreateBranch(rem, owner, repo_name, r2, dry_run, plan, lookups, found, data, faulted) ==
    IF ~Mutating(dry_run)
    THEN Outcome([r2 EXCEPT !.action = <<"create">>], rem, lookups, <<>>,
                 found, FALSE, TRUE, faulted)
    ELSE IF plan.mutate
    THEN Outcome([r2 EXCEPT !.error = HttpError], rem, lookups,
                 <<[method |-> "POST", owner |-> owner, repo |-> repo_name,
                    number |-> 0, data |-> data]>>,
                 found, FALSE, TRUE, [faulted EXCEPT !.mutate = TRUE])
    ELSE Outcome([r2 EXCEPT
                    !.milestone_number =
                        ApiCreate(rem, owner, repo_name, data).json.number,
                    !.action = <<"created">>],
                 ApiCreate(rem, owner, repo_name, data).remote, lookups,
                 <<[method |-> "POST", owner |-> owner, repo |-> repo_name,
                    number |-> 0, data |-> data]>>,
                 found, FALSE, TRUE, faulted)

\* The title sent with every update.
NeedsRenameAlways(found, milestone_name) == TRUE

\* Line 398: needs_rename.
NeedsRename(found, milestone_name) ==
    found.found_by_rename /\ found.existing_milestone.title # milestone_name

\* Lines 383-427: the new values are stored, then update or create.
Decide(rem, owner, repo_name, r1, dry_run, plan, lookups, found, milestone_name, description, due_date, faulted) ==
    IF found.existing_milestone # NoneDict
    THEN UpdateBranch(
             rem, owner, repo_name,
             [r1 EXCEPT
                !.new_name = milestone_name,
                !.new_description = description,
                !.new_due_date = due_date,
                !.previous_name = found.existing_milestone.title,
                !.previous_description =
                    OrNone(found.existing_milestone.description),
                !.previous_due_date =
                    OrNone(found.existing_milestone.due_on)],
             dry_run, plan, lookups, found,
             NeedsRename(found, milestone_name),
             UpdateData(IF NeedsRename(found, milestone_name)
                        THEN milestone_name ELSE None,
                        description, due_date),
             faulted)
    ELSE CreateBranch(
             rem, owner, repo_name,
             [r1 EXCEPT
                !.new_name = milestone_name,
                !.new_description = description,
                !.new_due_date = due_date],
             dry_run, plan, lookups, found,
             CreateData(milestone_name, description, due_date), faulted)

\* Lines 362-381: the matching; a list_milestones that raises ends it.
Match(rem, owner, repo_name, r1, milestone_config, dry_run, plan, lookups, reference_milestone, milestone_name, description, due_date, found, faulted) ==
    IF plan.list
    THEN Outcome([r1 EXCEPT !.error = HttpError], rem, lookups, <<>>,
                 NotFoundYet, FALSE, FALSE,
                 [faulted EXCEPT !.list = TRUE])
    ELSE Decide(rem, owner, repo_name, r1, dry_run, plan, lookups, found,
                milestone_name, description, due_date, faulted)

\* Lines 349-356: description and due date are resolved from the second
\* reference lookup.
ResolveFields(rem, owner, repo_name, r1, milestone_config, dry_run, plan, lookups, reference_milestone, milestone_name, dueR, faulted) ==
    IF ~dueR.ok
    THEN Outcome([r1 EXCEPT !.error = dueR.error], rem, lookups, <<>>,
                 NotFoundYet, FALSE, FALSE, faulted)
    ELSE Match(rem, owner, repo_name, r1, milestone_config, dry_run, plan,
               lookups, reference_milestone, milestone_name,
               ResolveDescription(milestone_config, reference_milestone),
               dueR.val,
               FindExisting(ListMilestones(rem, owner, repo_name, "all"),
                            milestone_config, milestone_name,
                            reference_milestone),
               faulted)

\* No reference lookup was made.
NoLookup == [outcome |-> "none", ret |-> NoneDict]

Lookups(linked, looks) == IF linked THEN looks ELSE <<>>

\* Lines 349-352: the reference milestone is fetched a second time.
SecondLookup(rem, owner, repo_name, r1, milestone_config, dry_run, plan, linked, look1, look2, milestone_name) ==
    ResolveFields(rem, owner, repo_name, r1, milestone_config, dry_run,
                  plan, Lookups(linked, <<look1, look2>>), look2.ret,
                  milestone_name,
                  ResolveDueDate(milestone_config, look2.ret),
                  [NoFaults EXCEPT !.ref1 = look1.outcome = "failed",
                                   !.ref2 = look2.outcome = "failed"])

\* Lines 344-347: the name is resolved, from the first reference lookup.
ResolveName(rem, owner, repo_name, result, milestone_config, dry_run, plan, linked, look1, nameR) ==
    IF ~nameR.ok
    THEN Outcome([result EXCEPT !.error = nameR.error], rem,
                 Lookups(linked, <<look1>>), <<>>, NotFoundYet, FALSE,
                 FALSE,
                 [NoFaults EXCEPT !.ref1 = look1.outcome = "failed"])
    ELSE SecondLookup(
             rem, owner, repo_name, [result EXCEPT !.name = nameR.val],
             milestone_config, dry_run, plan, linked, look1,
             IF linked
             THEN GetReferenceMilestone(
                      rem, milestone_config["referenceMilestoneUrl"],
                      plan.ref2)
             ELSE NoLookup,
             nameR.val)

FirstLookup(rem, owner, repo_name, result, milestone_config, dry_run, plan, linked, look1) ==
    ResolveName(rem, owner, repo_name, result, milestone_config, dry_run,
                plan, linked, look1,
                ResolveMilestoneName(milestone_config, look1.ret))

\* process_milestone(repo, milestone_config, dry_run) on remote state rem
\* with the calls of plan failing.  (The result's milestone_url, derived
\* from repo and milestone_number, is not kept.)
ProcessMilestone(rem, repo, milestone_config, dry_run, plan) ==
    FirstLookup(rem, SplitRepo(repo)[1], SplitRepo(repo)[2],
                EmptyResult(repo), milestone_config, dry_run, plan,
                HasTruthy(milestone_config, "referenceMilestoneUrl"),
                IF HasTruthy(milestone_config, "referenceMilestoneUrl")
                THEN GetReferenceMilestone(
                         rem, milestone_config["referenceMilestoneUrl"],
                         plan.ref1)
                ELSE NoLookup)

\* ------------------------------------------------------------ preprocessor

\* A text is handled as the sequence of its characters, each with the
\* position it has in the input (p, 0 for a character the function makes
\* itself), so that what is copied can be told from what is dropped.
Cells(text) == [i \in 1..Len(text) |-> [c |-> text[i], p |-> i]]
Chars(cells) == [i \in 1..Len(cells) |-> cells[i].c]

RECURSIVE SplitLines(_)
\* text.split('\n')
SplitLines(cells) ==
    IF \A i \in 1..Len(cells) : cells[i].c # "\n" THEN <<cells>>
    ELSE <<SubSeq(cells, 1, FindChar(Chars(cells), "\n", 1) - 1)>>
           \o SplitLines(SubSeq(cells, FindChar(Chars(cells), "\n", 1) + 1,
                                Len(cells)))

\* line.find('*/', from), 1-based, 0 when there is none.
FindClose(line, from) ==
    IF \E j \in from..(Len(line) - 1) : line[j].c = "*" /\ line[j + 1].c = "/"
    THEN CHOOSE j \in from..(Len(line) - 1) :
             /\ line[j].c = "*" /\ line[j + 1].c = "/"
             /\ \A h \in from..(j - 1) : ~(line[h].c = "*" /\ line[h + 1].c = "/")
    ELSE 0

\* The while loop of _strip_json_comments (lines 93-133) from index i of
\* line on: the characters kept of the line, and in_multiline_comment as
\* the loop leaves it.
RECURSIVE ScanLine(_, _, _, _, _, _)
ScanLine(line, i, new_line, in_string, escape_next, in_multiline_comment) ==
    IF i > Len(line)
    THEN [new_line |-> new_line, in_multiline_comment |-> in_multiline_comment]
    ELSE IF escape_next
    THEN ScanLine(line, i + 1, Append(new_line, line[i]), in_string, FALSE,
                  in_multiline_comment)
    ELSE IF line[i].c = "\\" /\ in_string
    THEN ScanLine(line, i + 1, Append(new_line, line[i]), in_string, TRUE,
                  in_multiline_comment)
    ELSE IF line[i].c = "\""
    THEN ScanLine(line, i + 1, Append(new_line, line[i]), ~in_string, FALSE,
                  in_multiline_comment)
    ELSE IF ~in_string /\ i < Len(line)
            /\ line[i].c = "/" /\ line[i + 1].c = "*"
    THEN IF FindClose(line, i + 2) # 0
         THEN ScanLine(line, FindClose(line, i + 2) + 2, new_line,
                       in_string, FALSE, TRUE)
         ELSE [new_line |-> new_line, in_multiline_comment |-> TRUE]
    ELSE IF ~in_string /\ i < Len(line)
            /\ line[i].c = "/" /\ line[i + 1].c = "/"
    THEN [new_line |-> new_line, in_multiline_comment |-> in_multiline_comment]
    ELSE ScanLine(line, i + 1, Append(new_line, line[i]), in_string, FALSE,
                  in_multiline_comment)

RECURSIVE StripLoop(_, _, _, _)
\* Lines 88-136: the line was not skipped; it is scanned and what is kept
\* of it is appended to result.
ScanAndAppend(lines, k, result, line, in_multiline_comment) ==
    StripLoop(lines, k + 1,
              Append(result,
                     ScanLine(line, 1, <<>>, FALSE, FALSE,
                              in_multiline_comment).new_line),
              ScanLine(line, 1, <<>>, FALSE, FALSE,
                       in_multiline_comment).in_multiline_comment)

\* Lines 76-136: the for loop over the lines, from the k-th on.
StripLoop(lines, k, result, in_multiline_comment) ==
    IF k > Len(lines) THEN result
    ELSE IF in_multiline_comment
    THEN IF FindClose(lines[k], 1) # 0
         THEN ScanAndAppend(lines, k, result,
                            SubSeq(lines[k], FindClose(lines[k], 1) + 2,
                                   Len(lines[k])),
                            FALSE)
         ELSE StripLoop(lines, k + 1, result, TRUE)
    ELSE ScanAndAppend(lines, k, result, lines[k], FALSE)

RECURSIVE JoinLines(_)
\* '\n'.join(result)
JoinLines(result) ==
    IF result = <<>> THEN <<>>
    ELSE IF Len(result) = 1 THEN result[1]
    ELSE result[1] \o <<[c |-> "\n", p |-> 0]>> \o JoinLines(Tail(result))

\* _strip_json_comments ending its result with a newline.
StripCellsNewlineEnded(text) == Append(JoinLines(StripLoop(SplitLines(Cells(text)), 1, <<>>, FALSE)), [c |-> "\n", p |-> 0])

\* _strip_json_comments(text), each character kept with its position in
\* text.
StripCells(text) == JoinLines(StripLoop(SplitLines(Cells(text)), 1, <<>>, FALSE))

\* _strip_json_comments(text)
StripJsonComments(text) == Chars(StripCells(text))

\* ------------------------------------------------------------ inputs

NameX == <<"X">>
NameY == <<"Y">>
DescD == <<"d">>
DescE == <<"e">>
Date1 == <<"2", "0", "2", "5", "-", "0", "3", "-", "0", "1">>
\* No such day: strptime raises.
BadDate == <<"2", "0", "2", "5", "-", "0", "2", "-", "3", "0">>
Due1 == Date1 \o <<"T", "0", "0", ":", "0", "0", ":", "0", "0", "Z">>
Due2 == <<"2", "0", "2", "5", "-", "0", "6", "-", "0", "1",
          "T", "0", "8", ":", "0", "0", ":", "0", "0", "Z">>

\* https://github.com/o/a/milestone/1
UrlA1 == HttpsGithub \o RepoA \o <<"/">> \o MilestoneSeg \o <<"/", "1">>
\* http://github.com/o/a/milestone/1: not the https the pattern asks for.
UrlBad == <<"h", "t", "t", "p", ":", "/", "/",
            "g", "i", "t", "h", "u", "b", ".", "c", "o", "m", "/">>
            \o RepoA \o <<"/">> \o MilestoneSeg \o <<"/", "1">>

\* The milestone specs configs are made of.
SpecSet ==
    { ("name" :> NameX),
      ("name" :> NameX) @@ ("description" :> EmptyStr)
          @@ ("dueDate" :> EmptyStr),
      ("name" :> NameX) @@ ("description" :> DescD) @@ ("dueDate" :> Date1),
      ("name" :> NameX) @@ ("dueDate" :> BadDate),
      ("name" :> NameY) @@ ("existingNameToRename" :> NameX),
      ("referenceMilestoneUrl" :> UrlA1) @@ ("name" :> NameY)
          @@ ("description" :> DescD) @@ ("dueDate" :> Date1),
      ("referenceMilestoneUrl" :> UrlA1),
      ("referenceMilestoneUrl" :> UrlBad) @@ ("name" :> NameX),
      ("description" :> DescD) }

SeqsUpTo(S, n) == UNION {[1..k -> S] : k \in 1..n}

AllRepos == <<RepoB, RepoA, RepoC>>

\* The configs: `repos` a prefix of AllRepos, `milestones` a non-empty list
\* of specs.
Configs ==
    [repos : {SubSeq(AllRepos, 1, k) :
                  k \in 1..(IF MaxRepos < 3 THEN MaxRepos ELSE 3)},
     milestones : SeqsUpTo(SpecSet, MaxMilestones)]

Milestone(n, t, d, due, st) ==
    [number |-> n, title |-> t, description |-> d, due_on |-> due,
     state |-> st]

\* What a repository holds before the first run.
InitialLists ==
    { <<>>,
      <<Milestone(1, NameX, DescE, Due2, "open")>>,
      <<Milestone(1, NameY, None, None, "closed"),
        Milestone(2, NameX, EmptyStr, Due1, "open")>> }

RepoKey(repo) == SplitRepo(repo)

RangeOf(seq) == {seq[i] : i \in 1..Len(seq)}

\* ------------------------------------------------------------ state

VARIABLES
    config,     \* the validated config: repos and milestones
    remote,     \* the remote milestones of every repository
    pc,         \* "idle" between runs, "running" inside run()
    dry_run,    \* the dry_run argument of the current run
    idx,        \* the number of pairs the current run has processed
    results,    \* run()'s results list
    runs,       \* the completed runs: dry_run and the results returned
    last,       \* what the last process_milestone did on its way
    faulty,     \* the number of pairs in which a remote call failed
    config_file,\* what validate_config finds at the --config path
    exits,      \* the exit codes of the program's invocations so far
    arg,        \* the argument of a function called on its own
    ret         \* what that call returned

vars == <<config, remote, pc, dry_run, idx, results, runs, last, faulty,
          config_file, exits, arg, ret>>

\* What validate_config can find: a config that validates ("ok"), no
\* config file, a config that is not JSON once its comments are stripped,
\* no schema file, a schema that is not JSON, a config the schema rejects.
ConfigFiles ==
    {"ok", "not_found", "bad_json", "schema_not_found", "bad_schema_json",
     "invalid"}

\* validate_config(config_path, schema_path): the config, or the exception
\* raised.
ValidateConfig(file, cfg) ==
    CASE file = "not_found" ->
             Raise(<<"Configuration file not found: ", "config_path">>)
      [] file = "bad_json" ->
             Raise(<<"Invalid JSON in configuration file: ", "e">>)
      [] file = "schema_not_found" ->
             Raise(<<"Schema file not found: ", "schema_path">>)
      [] file = "bad_schema_json" ->
             Raise(<<"Invalid JSON in schema file: ", "e">>)
      [] file = "invalid" ->
             Raise(<<"Configuration validation failed: ", "e.message">>)
      [] OTHER -> Ok(cfg)

\* main going on to run() whatever validate_config did.
ConfigAcceptedAlways(validated) == TRUE

\* main, lines 615-620: run() is reached only when validate_config
\* returned; when it raised, main prints the error and exits with 1.
ConfigAccepted(validated) == validated.ok

\* The exit code decided by the last result alone.
ExitCodeLastResult(rs) ==
    IF rs # <<>> /\ Truthy(rs[Len(rs)].error) THEN 1 ELSE 0

\* main, lines 628-630: 1 if any result has an error, else 0.
ExitCode(rs) ==
    IF \E k \in 1..Len(rs) : Truthy(rs[k].error) THEN 1 ELSE 0

\* No function is being called on its own.
NoArg == <<>>
NoRet == [called |-> FALSE]

\* The locals of process_milestone the result dict does not show.
NoLast ==
    [valid |-> FALSE, lookups |-> <<>>, requests |-> <<>>,
     existing_milestone |-> NoneDict, found_by_rename |-> FALSE,
     needs_rename |-> FALSE, matched |-> FALSE]

Init ==
    /\ config \in Configs
    /\ remote \in [{RepoKey(RepoA)} \cup
                     {RepoKey(r) : r \in RangeOf(config.repos)}
                       -> InitialLists]
    /\ pc = "idle"
    /\ dry_run = FALSE
    /\ idx = 0
    /\ results = <<>>
    /\ runs = <<>>
    /\ last = NoLast
    /\ faulty = 0
    /\ config_file \in ConfigFiles
    /\ exits = <<>>
    /\ arg = NoArg
    /\ ret = NoRet

NumPairs == Len(config.repos) * Len(config.milestones)

\* The repository of the k-th pair were the milestones the outer loop.
PairRepoMilestonesOuter(k) == config.repos[(k % Len(config.repos)) + 1]

\* The k-th pair (from 0) of run()'s nested loops: repos outside,
\* milestones inside.
PairRepo(k) == config.repos[(k \div Len(config.milestones)) + 1]
PairSpec(k) == config.milestones[(k % Len(config.milestones)) + 1]

\* The field lines run() prints for a result (lines 486-517): none for an
\* error; for a create the previous values are printed as None.
PrintedLines(result) ==
    IF Truthy(result.error) THEN <<>>
    ELSE IF result.action \in {<<"create">>, <<"created">>}
    THEN << FormatValueChange("Name", None, result.new_name, FALSE),
            FormatValueChange("Description", None, result.new_description,
                              FALSE),
            FormatValueChange("Due Date", None,
                              FormatDate(result.new_due_date), TRUE) >>
    ELSE << FormatValueChange("Name", result.previous_name,
                              result.new_name, FALSE),
            FormatValueChange("Description", result.previous_description,
                              result.new_description, FALSE),
            FormatValueChange("Due Date",
                              FormatDate(result.previous_due_date),
                              FormatDate(result.new_due_date), TRUE) >>

\* print_summary, line 568: total_created.
TotalCreated(rs) ==
    Cardinality({k \in 1..Len(rs) :
                    rs[k].action \in {<<"created">>, <<"create">>}})

\* total_updated counting the updates made and not the updates previewed.
TotalUpdatedMadeOnly(rs) ==
    Cardinality({k \in 1..Len(rs) : rs[k].action = <<"updated">>})

\* print_summary, line 569: total_updated.
TotalUpdated(rs) ==
    Cardinality({k \in 1..Len(rs) :
                    rs[k].action \in {<<"updated">>, <<"update">>}})

\* print_summary, line 570: total_errors.
TotalErrors(rs) == Cardinality({k \in 1..Len(rs) : Truthy(rs[k].error)})

\* main() calls run(config, dry_run): a real run or a dry run starts.
StartRun(dry) ==
    /\ pc = "idle"
    /\ Len(runs) < MaxRuns
    /\ ConfigAccepted(ValidateConfig(config_file, config))
    /\ pc' = "running"
    /\ dry_run' = dry
    /\ idx' = 0
    /\ results' = <<>>
    /\ UNCHANGED <<config, remote, runs, last, faulty, config_file, exits,
                   arg, ret>>

\* What process_milestone did, as `last` keeps it.
LastOf(out) ==
    [valid |-> TRUE, lookups |-> out.lookups, requests |-> out.requests,
     existing_milestone |-> out.existing_milestone,
     found_by_rename |-> out.found_by_rename,
     needs_rename |-> out.needs_rename,
     matched |-> out.matched]

\* The state after process_milestone returned out.
Processed(out, plan) ==
    /\ out.faulted = plan
    /\ remote' = out.remote
    /\ results' = Append(results, out.result)
    /\ last' = LastOf(out)

\* The calls of plan are calls process_milestone can make for this spec
\* in this mode.  (Processed asks that each one was made and failed.)
Plausible(plan, milestone_config, dry) ==
    /\ (plan.ref1 \/ plan.ref2)
          => HasTruthy(milestone_config, "referenceMilestoneUrl")
    /\ plan.mutate => ~dry /\ ~plan.list

\* One turn of run()'s inner loop: process_milestone on the next pair, its
\* result appended to the results (and printed: PrintedLines).  Remote
\* calls fail in the first run of a behaviour only, in at most
\* MaxFaultyPairs pairs of it.
ProcessPair(plan) ==
    /\ pc = "running"
    /\ idx < NumPairs
    /\ plan = NoFaults \/ (faulty < MaxFaultyPairs /\ runs = <<>>)
    /\ Plausible(plan, PairSpec(idx), dry_run)
    /\ Processed(ProcessMilestone(remote, PairRepo(idx), PairSpec(idx),
                                  dry_run, plan), plan)
    /\ idx' = idx + 1
    /\ faulty' = IF plan = NoFaults THEN faulty ELSE faulty + 1
    /\ UNCHANGED <<config, pc, dry_run, runs, config_file, exits, arg, ret>>

\* run() returns its results, and main exits (lines 624-630).
RunReturn ==
    /\ pc = "running"
    /\ idx = NumPairs
    /\ runs' = Append(runs, [dry_run |-> dry_run, results |-> results])
    /\ exits' = Append(exits, ExitCode(results))
    /\ pc' = "idle"
    /\ UNCHANGED <<config, remote, dry_run, idx, results, last, faulty,
                   config_file, arg, ret>>

\* main, lines 615-620: validate_config raised; the error is printed and
\* the program exits with 1.
MainConfigError ==
    /\ pc = "idle"
    /\ Len(exits) < MaxRuns
    /\ ~ConfigAccepted(ValidateConfig(config_file, config))
    /\ exits' = Append(exits, 1)
    /\ UNCHANGED <<config, remote, pc, dry_run, idx, results, runs, last,
                   faulty, config_file, arg, ret>>

Next ==
    \/ \E dry \in BOOLEAN : StartRun(dry)
    \/ \E plan \in FaultPlans : ProcessPair(plan)
    \/ RunReturn
    \/ MainConfigError

Spec == Init /\ [][Next]_vars

\* Batches of MaxBatch unlinked specs against one repository: long enough
\* for a pair to come between the pair that creates a milestone and the
\* pair that looks for it.
BatchSpecSet ==
    { ("name" :> NameX),
      ("name" :> NameY),
      ("name" :> NameY) @@ ("existingNameToRename" :> NameX),
      ("name" :> NameX) @@ ("existingNameToRename" :> NameY) }

InitBatch ==
    /\ config \in [repos : {<<RepoB>>},
                   milestones : [1..MaxBatch -> BatchSpecSet]]
    /\ remote \in [{RepoKey(RepoB)} -> InitialLists]
    /\ pc = "idle"
    /\ dry_run = FALSE
    /\ idx = 0
    /\ results = <<>>
    /\ runs = <<>>
    /\ last = NoLast
    /\ faulty = 0
    /\ config_file \in ConfigFiles
    /\ exits = <<>>
    /\ arg = NoArg
    /\ ret = NoRet

SpecBatch == InitBatch /\ [][Next]_vars

\* ------------------------------------------------------------ functions on their own

\* The program's own state while a function is called on its own.
ProgramNotRun ==
    /\ config = [repos |-> <<RepoB>>, milestones |-> <<("name" :> NameX)>>]
    /\ remote = [q \in {RepoKey(RepoB)} |-> <<>>]
    /\ pc = "call"
    /\ dry_run = FALSE
    /\ idx = 0
    /\ results = <<>>
    /\ runs = <<>>
    /\ last = NoLast
    /\ faulty = 0
    /\ config_file = "ok"
    /\ exits = <<>>

ProgramVars ==
    <<config, remote, pc, dry_run, idx, results, runs, last, faulty,
      config_file, exits>>

\* The characters of the texts: quote, backslash, slash, star, newline and
\* one other character.
Alphabet == {"\"", "\\", "/", "*", "\n", "a"}

Texts == UNION {[1..k -> Alphabet] : k \in 0..MaxTextLen}

InitStrip ==
    /\ ProgramNotRun
    /\ arg \in Texts
    /\ ret = NoRet

\* validate_config, lines 145-147 and 157-159: the content of a file is
\* stripped of its comments.
StripCall ==
    /\ pc = "call"
    /\ ~ret.called
    /\ ret' = [called |-> TRUE, cells |-> StripCells(arg)]
    /\ UNCHANGED <<ProgramVars, arg>>

SpecStrip == InitStrip /\ [][StripCall]_vars

\* The dueDate strings: a year, a month and a day field joined by dashes,
\* padded or not, of the calendar or not.
YearFields ==
    { <<"2", "0", "2", "5">>, <<"2", "0", "2", "4">>, <<"0", "9", "9", "9">>,
      <<"1", "9", "0", "0">>, <<"0", "0", "0", "0">> }
MonthFields ==
    { <<"0", "2">>, <<"0", "3">>, <<"1", "2">>, <<"1", "3">>, <<"3">> }
DayFields ==
    { <<"0", "1">>, <<"2", "9">>, <<"3", "0">>, <<"3", "1">>, <<"1">> }

DueDates ==
    { y \o <<"-">> \o m \o <<"-">> \o d :
          y \in YearFields, m \in MonthFields, d \in DayFields }

InitDate ==
    /\ ProgramNotRun
    /\ arg \in DueDates
    /\ ret = NoRet

\* An unlinked spec with dueDate arg is processed for a repository
\* without milestones: resolve_due_date (line 356), the due_on of the
\* create request (lines 419-423), and the date run() displays for the
\* result's new_due_date (line 492).
DueDateCall ==
    /\ pc = "call"
    /\ ~ret.called
    /\ ret' = LET r == ResolveDueDate(("name" :> NameX) @@ ("dueDate" :> arg),
                                      NoneDict)
              IN  IF r.ok
                  THEN [called |-> TRUE, ok |-> TRUE,
                        due_on |-> Field(CreateData(NameX, None, r.val),
                                         "due_on", None),
                        shown |-> FormatDate(r.val)]
                  ELSE [called |-> TRUE, ok |-> FALSE, error |-> r.error]
    /\ UNCHANGED <<ProgramVars, arg>>

SpecDate == InitDate /\ [][DueDateCall]_vars

\* ------------------------------------------------------------ claims

\* A pair has just been processed: results[idx] is its result and `last`
\* holds what process_milestone did.
JustProcessed == pc = "running" /\ idx >= 1 /\ last.valid
LastSpec == PairSpec(idx - 1)
LastRepo == PairRepo(idx - 1)
LastResult == results[idx]

Linked(milestone_config) ==
    HasTruthy(milestone_config, "referenceMilestoneUrl")

\* The remote milestone of repo ("owner/repo") numbered n.
RemoteMilestone(rem, repo, n) ==
    LET ms == rem[RepoKey(repo)]
    IN  ms[CHOOSE i \in 1..Len(ms) : ms[i].number = n]

\* The last pair was a real update of an existing milestone for an
\* unlinked spec.
UnlinkedRealUpdate ==
    /\ JustProcessed
    /\ ~Linked(LastSpec)
    /\ LastResult.action = <<"updated">>

\* C1: after the real update for an unlinked spec whose description is ""
\* or null, the remote milestone's description is empty or null whatever it
\* was before; a non-empty description is the remote description.
C1_EmptyDescriptionClears ==
    (UnlinkedRealUpdate /\ "description" \in DOMAIN LastSpec) =>
        LET after == RemoteMilestone(remote, LastRepo,
                                     LastResult.milestone_number)
        IN  IF Truthy(LastSpec["description"])
            THEN after.description = LastSpec["description"]
            ELSE ~Truthy(after.description)

\* C2: after the real update for an unlinked spec without a description
\* (dueDate) key, the remote description (due_on) is the one the matched
\* milestone had when it was listed, and the request does not carry the
\* field.
C2_AbsentFieldsUntouched ==
    UnlinkedRealUpdate =>
        LET after == RemoteMilestone(remote, LastRepo,
                                     LastResult.milestone_number)
            data  == last.requests[1].data
        IN  /\ "description" \notin DOMAIN LastSpec =>
                  /\ after.description = last.existing_milestone.description
                  /\ "description" \notin DOMAIN data
            /\ "dueDate" \notin DOMAIN LastSpec =>
                  /\ after.due_on = last.existing_milestone.due_on
                  /\ "due_on" \notin DOMAIN data

\* A real update left alone a description and a due date the milestone had.
C2_Witness ==
    /\ UnlinkedRealUpdate
    /\ "description" \notin DOMAIN LastSpec
    /\ "dueDate" \notin DOMAIN LastSpec
    /\ Truthy(last.existing_milestone.description)
    /\ Truthy(last.existing_milestone.due_on)
    /\ last.requests[1].method = "PATCH"

\* Every pair of a run succeeded: no result carries an error.
AllSucceeded(rs) == \A k \in 1..Len(rs) : rs[k].error = None

CreateActions == {<<"create">>, <<"created">>}
UpdateActions == {<<"update">>, <<"updated">>}

\* The second run is under way, after a real first run in which every pair
\* succeeded; the config is the same and nothing else touched the remote.
SecondRunAfterReal ==
    /\ Len(runs) = 1
    /\ ~runs[1].dry_run
    /\ AllSucceeded(runs[1].results)
    /\ pc = "running"

\* C3: in a second run after a real run in which every pair succeeded, no
\* pair's action is a create.
C3_SecondRunNeverCreates ==
    SecondRunAfterReal =>
        \A k \in 1..Len(results) : results[k].action \notin CreateActions

\* C4: in a second run after a real run in which every pair succeeded,
\* every field line printed for every pair reads "(unchanged)".
C4_SecondRunAllUnchanged ==
    SecondRunAfterReal =>
        \A k \in 1..Len(results) :
            \A n \in 1..Len(PrintedLines(results[k])) :
                PrintedLines(results[k])[n][3] = "(unchanged)"

\* The repository ("owner/repo") has a milestone, in any state, titled t.
HasTitle(rem, repo, t) ==
    \E i \in 1..Len(rem[RepoKey(repo)]) : rem[RepoKey(repo)][i].title = t

\* C5: when process_milestone matches for a spec with existingNameToRename
\* in a repository that holds both a milestone with that title and one with
\* the resolved name, the milestone matched is the one titled
\* existingNameToRename, flagged as found by rename.
C5_RenameMatchWins ==
    [][ ( /\ pc = "running" /\ idx' = idx + 1
          /\ last'.matched
          /\ HasTruthy(PairSpec(idx), "existingNameToRename")
          /\ HasTitle(remote, PairRepo(idx),
                      PairSpec(idx)["existingNameToRename"])
          /\ HasTitle(remote, PairRepo(idx), results'[idx'].name) )
        => /\ last'.found_by_rename
           /\ last'.existing_milestone.title =
                  PairSpec(idx)["existingNameToRename"]
           /\ results'[idx'].previous_name =
                  PairSpec(idx)["existingNameToRename"] ]_vars

\* A dry run (the remote is as it was) matched the milestone titled
\* existingNameToRename although another carries the target name.
C5_Witness ==
    /\ JustProcessed /\ dry_run
    /\ HasTruthy(LastSpec, "existingNameToRename")
    /\ LastSpec["existingNameToRename"] # LastResult.name
    /\ HasTitle(remote, LastRepo, LastSpec["existingNameToRename"])
    /\ HasTitle(remote, LastRepo, LastResult.name)
    /\ last.found_by_rename
    /\ last.existing_milestone.title = LastSpec["existingNameToRename"]

\* C6: a pair's action is a create only if, when the pair is processed,
\* the repository has no milestone, in any state, titled the resolved name
\* and none titled existingNameToRename (when given).
C6_CreateOnlyIfAbsent ==
    [][ ( /\ pc = "running" /\ idx' = idx + 1
          /\ results'[idx'].action \in CreateActions )
        => /\ ~HasTitle(remote, PairRepo(idx), results'[idx'].name)
           /\ HasTruthy(PairSpec(idx), "existingNameToRename") =>
                  ~HasTitle(remote, PairRepo(idx),
                            PairSpec(idx)["existingNameToRename"]) ]_vars

\* A milestone was created in a repository that already held a milestone,
\* of another title.
C6_Witness ==
    /\ JustProcessed
    /\ LastResult.action = <<"created">>
    /\ Len(remote[RepoKey(LastRepo)]) >= 2
    /\ last.requests[1].method = "POST"

\* The result is one process_milestone gives for this repo and this spec:
\* it names the repo; an unlinked spec's name is the result's name; a
\* linked spec's description points at its reference.
ResultIsFor(result, repo, milestone_config) ==
    /\ result.repo = repo
    /\ (~Linked(milestone_config) /\ "name" \in DOMAIN milestone_config)
          => result.name = milestone_config["name"]
    /\ (Linked(milestone_config) /\ result.error = None)
          => result.new_description =
                 SeePrefix \o milestone_config["referenceMilestoneUrl"]

\* C7: every completed run returned exactly R*M results, the k-th (from 0)
\* being for repos[k div M] and milestones[k mod M]; a result either
\* carries an error or a create/update action, whatever the other pairs did.
C7_OneResultPerPair ==
    \A r \in 1..Len(runs) :
        LET rs == runs[r].results
            M  == Len(config.milestones)
        IN  /\ Len(rs) = Len(config.repos) * M
            /\ \A k \in 0..(Len(rs) - 1) :
                  /\ ResultIsFor(rs[k + 1], config.repos[(k \div M) + 1],
                                 config.milestones[(k % M) + 1])
                  /\ IF Truthy(rs[k + 1].error)
                     THEN rs[k + 1].action = None
                     ELSE rs[k + 1].action \in CreateActions \cup UpdateActions

\* A run over two repos and two specs returned four results, the second
\* with an error and the three others with an action.
C7_Witness ==
    /\ Len(runs) >= 1
    /\ Len(config.repos) = 2 /\ Len(config.milestones) = 2
    /\ Len(runs[1].results) = 4
    /\ Truthy(runs[1].results[2].error)
    /\ \A k \in {1, 3, 4} :
          runs[1].results[k].action \in CreateActions \cup UpdateActions

\* C8: no step of a dry run changes the remote milestones of any
\* repository, and a pair processed in a dry run sends no create or update
\* request.
C8_DryRunLeavesRemote ==
    [][ (pc = "running" /\ dry_run)
        => /\ remote' = remote
           /\ idx' = idx + 1 => last'.requests = <<>> ]_vars

\* A dry run decided on an update that renames, and on nothing else than
\* reporting it.
C8_Witness ==
    /\ JustProcessed /\ dry_run
    /\ LastResult.action = <<"update">>
    /\ last.needs_rename
    /\ LastResult.previous_name # LastResult.new_name
    /\ last.requests = <<>>

SameKind(a, b) ==
    \/ a \in CreateActions /\ b \in CreateActions
    \/ a \in UpdateActions /\ b \in UpdateActions
    \/ a = None /\ b = None

\* C9: a dry run followed by a real run (no remote call failing in either,
\* so the real run starts from the state the dry run saw) report, pair by
\* pair, the same kind of action and the same previous and new name,
\* description and due date.
C9_DryRunPreviewsRealRun ==
    (Len(runs) = 2 /\ runs[1].dry_run /\ ~runs[2].dry_run /\ faulty = 0) =>
        \A k \in 1..Len(runs[1].results) :
            LET d == runs[1].results[k]
                w == runs[2].results[k]
            IN  /\ SameKind(d.action, w.action)
                /\ d.previous_name = w.previous_name
                /\ d.previous_description = w.previous_description
                /\ d.previous_due_date = w.previous_due_date
                /\ d.new_name = w.new_name
                /\ d.new_description = w.new_description
                /\ d.new_due_date = w.new_due_date

\* C10: a reference lookup answered 404 and one whose request failed
\* otherwise never return the same value to the caller.
C10_FailureDistinctFromNotFound ==
    \A i, j \in 1..Len(last.lookups) :
        (last.lookups[i].outcome = "404" /\ last.lookups[j].outcome = "failed")
            => last.lookups[i].ret # last.lookups[j].ret

\* C11: a pair whose referenceMilestoneUrl does not match the pattern of
\* parse_milestone_url ends with an error and sends no create or update
\* request, with or without a name in the spec.
C11_InvalidUrlFails ==
    ( /\ JustProcessed
      /\ Linked(LastSpec)
      /\ ~ParseMilestoneUrl(LastSpec["referenceMilestoneUrl"]).ok )
    => /\ Truthy(LastResult.error)
       /\ last.requests = <<>>

\* C12: the result's name is the title the reference lookup returned when
\* the spec is linked and the lookup resolved, whatever its name field;
\* the name field when the spec is unlinked, or linked with a lookup
\* that did not resolve; and when there is no name to fall back on, the
\* result carries an error and neither a name nor an action.
C12_NamePrecedence ==
    JustProcessed =>
        IF Linked(LastSpec) /\ last.lookups[1].outcome = "ok"
        THEN LastResult.name = last.lookups[1].ret.title
        ELSE IF "name" \in DOMAIN LastSpec
        THEN LastResult.name = LastSpec["name"]
        ELSE /\ Truthy(LastResult.error)
             /\ LastResult.name = None
             /\ LastResult.action = None
             /\ last.requests = <<>>

\* A linked spec with a name got the title of its reference, another name.
C12_Witness ==
    /\ JustProcessed
    /\ Linked(LastSpec)
    /\ "name" \in DOMAIN LastSpec
    /\ last.lookups[1].outcome = "ok"
    /\ LastResult.name = last.lookups[1].ret.title
    /\ LastResult.name # LastSpec["name"]

\* C13: processing an unlinked spec whose non-empty dueDate strptime
\* rejects leaves the remote state as it was and sends no request; the
\* result has no action and its error names the dueDate string.
C13_InvalidDateFails ==
    [][ ( /\ pc = "running" /\ idx' = idx + 1
          /\ ~Linked(PairSpec(idx))
          /\ HasTruthy(PairSpec(idx), "dueDate")
          /\ ~Strptime(PairSpec(idx)["dueDate"]).ok )
        => /\ remote' = remote
           /\ last'.requests = <<>>
           /\ results'[idx'].action = None
           /\ Truthy(results'[idx'].error)
           /\ results'[idx'].error[2] = PairSpec(idx)["dueDate"] ]_vars

\* A real run's pair failed on its dueDate although a milestone of its
\* name was there to update.
C13_Witness ==
    /\ JustProcessed /\ ~dry_run
    /\ ~Linked(LastSpec)
    /\ HasTruthy(LastSpec, "dueDate")
    /\ LastResult.error =
           <<"Invalid date format: ", BadDate, ". Expected YYYY-MM-DD">>
    /\ HasTitle(remote, LastRepo, LastSpec["name"])
    /\ LastResult.action = None

\* The titles a spec designates once its name is resolved: its
\* existingNameToRename (when given) and the resolved name.
DesignatedTitles(milestone_config, milestone_name) ==
    {milestone_name} \cup
        (IF HasTruthy(milestone_config, "existingNameToRename")
         THEN {milestone_config["existingNameToRename"]} ELSE {})

\* Earlier in the current real run, pair k created milestone number
\* results[k].milestone_number, titled t, in the repository of the pair
\* that comes next.
CreatedEarlier(k, t) ==
    /\ k \in 1..idx
    /\ ~dry_run
    /\ results[k].repo = PairRepo(idx)
    /\ results[k].action = <<"created">>
    /\ results[k].new_name = t

\* C19 (as stated): when an earlier pair of a real run created a milestone
\* titled T in the repository, a later pair on it whose resolved name or
\* existingNameToRename is T matches that very milestone and does not
\* create.
C19_LaterPairMatchesCreated ==
    [][ \A k \in 1..idx :
          ( /\ pc = "running" /\ idx' = idx + 1
            /\ last'.matched
            /\ CreatedEarlier(k, results[k].new_name)
            /\ results[k].new_name \in
                   DesignatedTitles(PairSpec(idx), results'[idx'].name) )
          => /\ results'[idx'].action \notin CreateActions
             /\ last'.existing_milestone # NoneDict
             /\ last'.existing_milestone.number = results[k].milestone_number
      ]_vars

\* C19 (amended): the later pair is matched against the repository as the
\* earlier pairs left it.  When the milestone an earlier pair created is
\* still titled T, a later pair whose resolved name or existingNameToRename
\* is T matches an existing milestone carrying one of its designated
\* titles and does not create; the milestone matched is the created one
\* when no other milestone carries a designated title.
C19_LaterPairSeesCreated ==
    [][ \A k \in 1..idx :
          ( /\ pc = "running" /\ idx' = idx + 1
            /\ last'.matched
            /\ CreatedEarlier(k, results[k].new_name)
            /\ RemoteMilestone(remote, PairRepo(idx),
                               results[k].milestone_number).title
                   = results[k].new_name
            /\ results[k].new_name \in
                   DesignatedTitles(PairSpec(idx), results'[idx'].name) )
          => /\ results'[idx'].action \notin CreateActions
             /\ last'.existing_milestone # NoneDict
             /\ last'.existing_milestone.title \in
                    DesignatedTitles(PairSpec(idx), results'[idx'].name)
             /\ (\A i \in 1..Len(remote[RepoKey(PairRepo(idx))]) :
                    remote[RepoKey(PairRepo(idx))][i].title \in
                        DesignatedTitles(PairSpec(idx), results'[idx'].name)
                    => remote[RepoKey(PairRepo(idx))][i].number
                           = results[k].milestone_number)
                => last'.existing_milestone.number
                       = results[k].milestone_number
      ]_vars

\* The third pair of a real run updated the milestone the first pair
\* created.
C19_Witness ==
    /\ JustProcessed /\ ~dry_run /\ idx = 3
    /\ results[1].action = <<"created">>
    /\ results[1].new_name \in DesignatedTitles(LastSpec, LastResult.name)
    /\ LastResult.action = <<"updated">>
    /\ LastResult.milestone_number = results[1].milestone_number
    /\ last.existing_milestone.number = results[1].milestone_number

\* C18: the exit code of every invocation that completed a run, dry or
\* real, is 0 when no result of the run has an error and 1 when one has.
C18_ExitCodeTellsErrors ==
    (ConfigAccepted(ValidateConfig(config_file, config)) /\ pc = "idle") =>
        /\ Len(exits) = Len(runs)
        /\ \A r \in 1..Len(runs) :
              /\ exits[r] = 0 <=> AllSucceeded(runs[r].results)
              /\ exits[r] # 0 <=>
                    \E k \in 1..Len(runs[r].results) :
                        runs[r].results[k].error # None

\* A dry run of two pairs whose first pair failed exited with 1, and the
\* real run after it, without error, with 0.
C18_Witness ==
    /\ Len(runs) = 2 /\ pc = "idle"
    /\ runs[1].dry_run /\ ~runs[2].dry_run
    /\ Len(runs[1].results) = 2
    /\ runs[1].results[1].error # None
    /\ runs[1].results[2].error = None
    /\ exits = <<1, 0>>

\* C20: when the config is not JSON once stripped, or the schema rejects
\* it, no step processes a pair: the remote state stays as it is, no result
\* and no run is produced, and every exit code is non-zero.
C20_FatalConfigBeforeRemote ==
    [][ (config_file \in {"bad_json", "invalid"})
        => /\ remote' = remote
           /\ results' = <<>>
           /\ runs' = <<>>
           /\ last' = NoLast
           /\ pc' = "idle"
           /\ \A i \in 1..Len(exits') : exits'[i] # 0
      ]_vars

\* The program was invoked on a config the schema rejects, against
\* repositories with milestones, and exited with 1.
C20_Witness ==
    /\ config_file = "invalid"
    /\ exits = <<1>>
    /\ results = <<>>
    /\ \A q \in DOMAIN remote : remote[q] # <<>>


\* A date of the calendar written YYYY-MM-DD: four digits, two digits and
\* two digits.
ValidIsoDate(s) ==
    /\ Len(s) = 10
    /\ s[5] = "-" /\ s[8] = "-"
    /\ IsDigits(SubSeq(s, 1, 4)) /\ IsDigits(SubSeq(s, 6, 7))
    /\ IsDigits(SubSeq(s, 9, 10))
    /\ ToInt(SubSeq(s, 1, 4)) >= 1
    /\ ToInt(SubSeq(s, 6, 7)) \in 1..12
    /\ ToInt(SubSeq(s, 9, 10)) \in
           1..DaysInMonth(ToInt(SubSeq(s, 1, 4)), ToInt(SubSeq(s, 6, 7)))

MidnightZ == <<"T", "0", "0", ":", "0", "0", ":", "0", "0", "Z">>

\* C14: for every valid YYYY-MM-DD dueDate d of an unlinked spec, the
\* due_on sent to the remote is d followed by T00:00:00Z, and the date
\* displayed for it is d again.
C14_DateRoundTrip ==
    (ret.called /\ ValidIsoDate(arg)) =>
        /\ ret.ok
        /\ ret.due_on = arg \o MidnightZ
        /\ ret.shown = arg

\* ---- the reference scanner of the preprocessor's rules 1-4

\* The first newline of cells at or after i, Len(cells) + 1 without one.
NextNewline(cells, i) ==
    IF \E j \in i..Len(cells) : cells[j].c = "\n"
    THEN CHOOSE j \in i..Len(cells) :
             /\ cells[j].c = "\n"
             /\ \A k \in i..(j - 1) : cells[k].c # "\n"
    ELSE Len(cells) + 1

RefStart ==
    [out |-> <<>>, strings |-> {}, opened |-> FALSE, nl_in_block |-> FALSE,
     unclosed |-> FALSE]

RefCopy(acc, cell) == [acc EXCEPT !.out = Append(@, cell)]

RECURSIVE RefScan(_, _, _, _, _, _)
\* The three-mode scanner, one character at a time: mode is "normal",
\* "string" or "block"; esc tells that the previous character of a string
\* was an escaping backslash; open_at is the position of the quote that
\* opened the string.  The result holds the cells copied, the spans
\* <<a, b>> of the strings opened at a and closed at b, whether a block
\* comment was opened, whether a newline was read in block mode, and
\* whether the text ended in block mode.
RefScan(cells, i, mode, esc, open_at, acc) ==
    IF i > Len(cells) THEN [acc EXCEPT !.unclosed = (mode = "block")]
    ELSE
      LET cell == cells[i]
          two(a, b) == /\ i < Len(cells)
                       /\ cell.c = a /\ cells[i + 1].c = b
      IN  IF mode = "block"
          THEN IF two("*", "/")
               THEN RefScan(cells, i + 2, "normal", FALSE, 0, acc)
               ELSE RefScan(cells, i + 1, "block", FALSE, 0,
                            IF cell.c = "\n"
                            THEN RefCopy([acc EXCEPT !.nl_in_block = TRUE],
                                         cell)
                            ELSE acc)
          ELSE IF cell.c = "\n"
          THEN RefScan(cells, i + 1, "normal", FALSE, 0, RefCopy(acc, cell))
          ELSE IF mode = "string"
          THEN IF esc
               THEN RefScan(cells, i + 1, "string", FALSE, open_at,
                            RefCopy(acc, cell))
               ELSE IF cell.c = "\\"
               THEN RefScan(cells, i + 1, "string", TRUE, open_at,
                            RefCopy(acc, cell))
               ELSE IF cell.c = "\""
               THEN RefScan(cells, i + 1, "normal", FALSE, 0,
                            RefCopy([acc EXCEPT !.strings =
                                         @ \cup {<<open_at, i>>}], cell))
               ELSE RefScan(cells, i + 1, "string", FALSE, open_at,
                            RefCopy(acc, cell))
          ELSE IF cell.c = "\""
          THEN RefScan(cells, i + 1, "string", FALSE, i, RefCopy(acc, cell))
          ELSE IF two("/", "*")
          THEN RefScan(cells, i + 2, "block", FALSE, 0,
                       [acc EXCEPT !.opened = TRUE])
          ELSE IF two("/", "/")
          THEN RefScan(cells, NextNewline(cells, i), "normal", FALSE, 0, acc)
          ELSE RefScan(cells, i + 1, "normal", FALSE, 0, RefCopy(acc, cell))

RefStrip(text) == RefScan(Cells(text), 1, "normal", FALSE, 0, RefStart)

NonNewline(chars) == SelectSeq(chars, LAMBDA c : c # "\n")

Newlines(chars) == Cardinality({i \in 1..Len(chars) : chars[i] = "\n"})

\* C16: a text whose block comments all open and close on the same line
\* is stripped to as many lines as it has, holding the characters the
\* reference scanner keeps: no line after the comment is discarded.
C16_SameLineCommentCloses ==
    (/\ ret.called
     /\ RefStrip(arg).opened
     /\ ~RefStrip(arg).nl_in_block
     /\ ~RefStrip(arg).unclosed) =>
        /\ Newlines(Chars(ret.cells)) = Newlines(arg)
        /\ NonNewline(Chars(ret.cells)) = NonNewline(Chars(RefStrip(arg).out))

\* C15: every string of the text, from its opening quote to its closing
\* unescaped quote, is found in the output as it was written.
C15_StringsCopiedVerbatim ==
    ret.called =>
        \A span \in RefStrip(arg).strings :
            \E j \in 1..Len(ret.cells) :
                /\ j + (span[2] - span[1]) <= Len(ret.cells)
                /\ \A k \in 0..(span[2] - span[1]) :
                       ret.cells[j + k].p = span[1] + k

\* C17: the output holds the same sequence of non-newline characters as
\* the output of the reference scanner.
C17_SameAsReference ==
    ret.called =>
        NonNewline(Chars(ret.cells)) = NonNewline(Chars(RefStrip(arg).out))

\* ---- reference milestones, resolution and the requests sent

\* The milestone (owner, repo, number) a referenceMilestoneUrl names.
ReferenceTargets ==
    { ParseMilestoneUrl(config.milestones[k]["referenceMilestoneUrl"]) :
          k \in { j \in 1..Len(config.milestones) :
                      /\ Linked(config.milestones[j])
                      /\ ParseMilestoneUrl(
                             config.milestones[j]["referenceMilestoneUrl"]).ok } }

\* C21: no update request sent by a run targets the milestone (owner, repo,
\* number) that the referenceMilestoneUrl of a spec of the config names.
C21_ReferenceNeverMutated ==
    JustProcessed =>
        \A k \in 1..Len(last.requests) :
            last.requests[k].method = "PATCH" =>
                \A t \in ReferenceTargets :
                    ~(/\ t.owner = last.requests[k].owner
                      /\ t.repo = last.requests[k].repo
                      /\ t.number = last.requests[k].number)

\* The reference_milestone of process_milestone (line 352) for a linked
\* spec that got as far as the matching.
ReferenceUsed == last.lookups[2].ret

\* C22: for a linked spec the resolved due date is the due_on of the
\* reference milestone when the reference resolved and has one, and is
\* otherwise left out of the result and of the request; the spec's own
\* dueDate is not used.
C22_LinkedDueDate ==
    (JustProcessed /\ Linked(LastSpec) /\ last.matched) =>
        IF ReferenceUsed # NoneDict /\ Truthy(ReferenceUsed.due_on)
        THEN /\ LastResult.new_due_date = ReferenceUsed.due_on
             /\ \A k \in 1..Len(last.requests) :
                    /\ "due_on" \in DOMAIN last.requests[k].data
                    /\ last.requests[k].data["due_on"] = ReferenceUsed.due_on
        ELSE /\ LastResult.new_due_date = None
             /\ \A k \in 1..Len(last.requests) :
                    "due_on" \notin DOMAIN last.requests[k].data

\* A linked spec that has a dueDate of its own was sent with the due_on of
\* its reference.
C22_Witness ==
    /\ JustProcessed /\ ~dry_run
    /\ Linked(LastSpec)
    /\ HasTruthy(LastSpec, "dueDate")
    /\ last.matched
    /\ Len(last.requests) = 1
    /\ "due_on" \in DOMAIN last.requests[1].data
    /\ last.requests[1].data["due_on"] = Due2
    /\ ReferenceUsed.due_on = Due2

\* The spec sets a description: a linked spec always does (the pointer to
\* its URL), an unlinked one by a non-empty description.
DescriptionSet(milestone_config) ==
    Linked(milestone_config) \/ HasTruthy(milestone_config, "description")

\* The spec sets a due date: a linked one when the reference it was given
\* has a due_on, an unlinked one by a non-empty dueDate.
DueDateSet(milestone_config, reference_milestone) ==
    IF Linked(milestone_config)
    THEN reference_milestone # NoneDict /\ Truthy(reference_milestone.due_on)
    ELSE HasTruthy(milestone_config, "dueDate")

\* C23: when a pair's name and fields resolve and no milestone of its
\* repository carries its existingNameToRename or its resolved name, the
\* result's previous name, description and due date are null and, in a
\* real run, the one request sent is a create carrying the resolved name,
\* a description exactly when the spec sets one and a due_on exactly when
\* the spec sets one: a field that is not set is absent, not null.
C23_CreateDecision ==
    [][ ( /\ pc = "running" /\ idx' = idx + 1
          /\ last'.matched
          /\ \A t \in DesignatedTitles(PairSpec(idx), results'[idx'].name) :
                 ~HasTitle(remote, PairRepo(idx), t) )
        => /\ results'[idx'].previous_name = None
           /\ results'[idx'].previous_description = None
           /\ results'[idx'].previous_due_date = None
           /\ last'.existing_milestone = NoneDict
           /\ IF dry_run THEN last'.requests = <<>>
              ELSE /\ Len(last'.requests) = 1
                   /\ last'.requests[1].method = "POST"
                   /\ last'.requests[1].data["title"] = results'[idx'].name
                   /\ "description" \in DOMAIN last'.requests[1].data
                         <=> DescriptionSet(PairSpec(idx))
                   /\ "due_on" \in DOMAIN last'.requests[1].data
                         <=> DueDateSet(PairSpec(idx),
                                        IF Linked(PairSpec(idx))
                                        THEN last'.lookups[2].ret
                                        ELSE NoneDict)
                   /\ \A f \in DOMAIN last'.requests[1].data :
                         last'.requests[1].data[f] # None ]_vars

\* A real run created a milestone for a spec whose description and dueDate
\* are both "": the request carries the title alone.
C23_Witness ==
    /\ JustProcessed /\ ~dry_run
    /\ LastResult.action = <<"created">>
    /\ "description" \in DOMAIN LastSpec /\ "dueDate" \in DOMAIN LastSpec
    /\ ~Truthy(LastSpec["description"]) /\ ~Truthy(LastSpec["dueDate"])
    /\ Len(last.requests) = 1
    /\ last.requests[1].method = "POST"
    /\ DOMAIN last.requests[1].data = {"title"}

\* The pair about to be processed has an existingNameToRename that a
\* milestone of its repository carries.
MatchedByRename ==
    /\ HasTruthy(PairSpec(idx), "existingNameToRename")
    /\ HasTitle(remote, PairRepo(idx), PairSpec(idx)["existingNameToRename"])

\* C24: an update request carries a title exactly when the milestone was
\* matched by existingNameToRename and its title differs from the resolved
\* name, and the title it carries is the resolved name; the title of a
\* milestone matched by its resolved name is not sent and is the same
\* after the update.
C24_UpdateTitleRule ==
    [][ ( /\ pc = "running" /\ idx' = idx + 1
          /\ Len(last'.requests) = 1
          /\ last'.requests[1].method = "PATCH" )
        => LET req    == last'.requests[1]
               before == RemoteMilestone(remote, PairRepo(idx), req.number)
           IN  /\ "title" \in DOMAIN req.data
                     <=> (MatchedByRename
                            /\ before.title # results'[idx'].name)
               /\ "title" \in DOMAIN req.data
                     => req.data["title"] = results'[idx'].name
               /\ (~MatchedByRename
                      /\ results'[idx'].action = <<"updated">>)
                     => /\ before.title = results'[idx'].name
                        /\ RemoteMilestone(remote', PairRepo(idx),
                                           req.number).title = before.title
    ]_vars

\* A real update of a milestone found by its resolved name changed its
\* description without sending its title.
C24_Witness ==
    /\ JustProcessed /\ ~dry_run
    /\ LastResult.action = <<"updated">>
    /\ ~last.found_by_rename
    /\ Len(last.requests) = 1
    /\ "title" \notin DOMAIN last.requests[1].data
    /\ "description" \in DOMAIN last.requests[1].data
    /\ LastResult.previous_description # LastResult.new_description
    /\ LastResult.previous_name = LastResult.new_name

\* The GET requests for the reference milestone that the last pair sent
\* (a URL that does not parse is not requested).
ReferenceGets ==
    SelectSeq(last.lookups, LAMBDA look : look.outcome # "invalid_url")

\* C25: the pair just processed sent at most one GET for the milestone of
\* its referenceMilestoneUrl, the one URL it has.
C25_OneLookupPerUrl ==
    JustProcessed => Len(ReferenceGets) <= 1

\* C26: when the name of a linked pair is the title of the reference
\* record its lookup returned, the pair's due date is the due_on of that
\* same record (none when the record has none), and the record the
\* matching was decided with is that record too.
C26_OneLookupOutcome ==
    ( /\ JustProcessed /\ Linked(LastSpec) /\ last.matched
      /\ last.lookups[1].outcome = "ok"
      /\ LastResult.name = last.lookups[1].ret.title )
    => /\ LastResult.new_due_date = OrNone(last.lookups[1].ret.due_on)
       /\ ReferenceUsed = last.lookups[1].ret

\* The titles of the milestones of every repository are pairwise distinct.
TitlesDistinct(rem) ==
    \A q \in DOMAIN rem :
        \A i, j \in 1..Len(rem[q]) :
            rem[q][i].title = rem[q][j].title => i = j

\* C27 (as stated): a step of a run that starts from pairwise distinct
\* titles in every repository leaves them pairwise distinct.
C27_TitlesStayDistinct ==
    [][ TitlesDistinct(remote) => TitlesDistinct(remote') ]_vars

\* The pair about to be processed renames a milestone to a title that
\* another milestone of the repository carries: it is matched by its
\* existingNameToRename while the resolved name is there as well.
RenameOntoExisting ==
    /\ pc = "running" /\ idx' = idx + 1
    /\ MatchedByRename
    /\ PairSpec(idx)["existingNameToRename"] # results'[idx'].name
    /\ HasTitle(remote, PairRepo(idx), results'[idx'].name)

\* C27 (amended): a step that starts from pairwise distinct titles leaves
\* them pairwise distinct unless it renames a milestone matched by
\* existingNameToRename to a resolved name that another milestone of the
\* repository already carries.
C27_DistinctUnlessRenamedOnto ==
    [][ (TitlesDistinct(remote) /\ ~RenameOntoExisting)
        => TitlesDistinct(remote') ]_vars

\* A real run renamed a milestone and the titles are pairwise distinct.
C27_Witness ==
    /\ JustProcessed /\ ~dry_run
    /\ LastResult.action = <<"updated">>
    /\ last.needs_rename
    /\ LastResult.previous_name # LastResult.new_name
    /\ HasTitle(remote, LastRepo, LastResult.new_name)
    /\ TitlesDistinct(remote)

\* A result of a run made with dry: exactly one of action and error is
\* not None, and the action is a preview verb in a dry run and a done verb
\* in a real one.
WellFormedResult(result, dry) ==
    /\ (result.action # None) # (result.error # None)
    /\ result.action # None =>
          result.action \in (IF dry THEN {<<"create">>, <<"update">>}
                             ELSE {<<"created">>, <<"updated">>})

\* C28: every result of the current run and of the completed runs has
\* exactly one of action and error, with the verbs of the run's mode, and
\* the totals of the summary add up to the number of results.
C28_ActionXorError ==
    /\ \A k \in 1..Len(results) : WellFormedResult(results[k], dry_run)
    /\ \A n \in 1..Len(runs) :
          /\ \A k \in 1..Len(runs[n].results) :
                 WellFormedResult(runs[n].results[k], runs[n].dry_run)
          /\ TotalCreated(runs[n].results) + TotalUpdated(runs[n].results)
                + TotalErrors(runs[n].results) = Len(runs[n].results)

\* A dry run that ended with a create, an update and an error to report.
C28_Witness ==
    \E n \in 1..Len(runs) :
        /\ runs[n].dry_run
        /\ TotalCreated(runs[n].results) >= 1
        /\ TotalUpdated(runs[n].results) >= 1
        /\ TotalErrors(runs[n].results) >= 1

\* C29: a pair sends at most one create or update request: none in a dry
\* run or when its resolution or matching fails (no new values stored),
\* exactly one in a real run otherwise; an update is addressed to the
\* pair's own repository and to the number of a milestone that carried
\* the spec's existingNameToRename or resolved name, which is the result's
\* milestone_number; a create answers with the result's milestone_number.
C29_OneMutatingCall ==
    [][ (pc = "running" /\ idx' = idx + 1)
        => LET result == results'[idx']
               reqs   == last'.requests
           IN  /\ Len(reqs) <= 1
               /\ (dry_run \/ result.new_name = None) => reqs = <<>>
               /\ (~dry_run /\ result.new_name # None) => Len(reqs) = 1
               /\ \A k \in 1..Len(reqs) :
                     /\ <<reqs[k].owner, reqs[k].repo>> = RepoKey(PairRepo(idx))
                     /\ reqs[k].method \in {"POST", "PATCH"}
                     /\ reqs[k].method = "PATCH" =>
                           /\ \E i \in 1..Len(remote[RepoKey(PairRepo(idx))]) :
                                  LET m == remote[RepoKey(PairRepo(idx))][i]
                                  IN  /\ m.number = reqs[k].number
                                      /\ m.title \in DesignatedTitles(
                                                         PairSpec(idx),
                                                         result.name)
                                      /\ m = last'.existing_milestone
                           /\ result.action = <<"updated">>
                                 => result.milestone_number = reqs[k].number
                     /\ reqs[k].method = "POST" =>
                           /\ last'.existing_milestone = NoneDict
                           /\ result.action = <<"created">> =>
                                 RemoteMilestone(remote', PairRepo(idx),
                                                 result.milestone_number).title
                                   = result.name
               /\ result.action = <<"update">> =>
                     result.milestone_number = last'.existing_milestone.number
    ]_vars

\* A real run updated milestone #2 of a repository holding two: the
\* request went to #2 and the result names #2.
C29_Witness ==
    /\ JustProcessed /\ ~dry_run
    /\ LastResult.action = <<"updated">>
    /\ Len(last.requests) = 1
    /\ last.requests[1].method = "PATCH"
    /\ last.requests[1].number = 2
    /\ LastResult.milestone_number = 2
    /\ Len(remote[RepoKey(LastRepo)]) >= 2

RECURSIVE IsSubsequence(_, _, _, _)
\* a from its i-th element on is a subsequence of b from its j-th on: the
\* elements of a are found in b in their order.
IsSubsequence(a, i, b, j) ==
    IF i > Len(a) THEN TRUE
    ELSE IF j > Len(b) THEN FALSE
    ELSE IF a[i] = b[j] THEN IsSubsequence(a, i + 1, b, j + 1)
    ELSE IsSubsequence(a, i, b, j + 1)

\* C30: the stripped text is a subsequence of the text, has no more lines
\* than it, and is the text itself when the text has no slash.
C30_OnlyDeletes ==
    ret.called =>
        /\ IsSubsequence(Chars(ret.cells), 1, arg, 1)
        /\ Newlines(Chars(ret.cells)) <= Newlines(arg)
        /\ (\A i \in 1..Len(arg) : arg[i] # "/") => Chars(ret.cells) = arg

\* The text "//"// was stripped of its comment and kept its string.
C30_Witness ==
    /\ ret.called
    /\ arg = <<"\"", "/", "/", "\"", "/", "/">>
    /\ Chars(ret.cells) = <<"\"", "/", "/", "\"">>

====
